---------------------------- MODULE Spec2Model ----------------------------
(***************************************************************************)
(* Model of acestep/apple_silicon_optimizer.py: the AppleSiliconOptimizer  *)
(* class, optimize_for_apple_silicon and the module body.                  *)
(*                                                                         *)
(* Program state: the optimizer objects alive in the process (each holds   *)
(* the two fields set by __init__), os.environ, and the outcome of the     *)
(* last call made into the module.  What the platform, the sysctl command, *)
(* torch and psutil answer is an input of every call (\E), so the answers  *)
(* may differ from one call to the next; only platform.system() is fixed   *)
(* for the life of the process.                                            *)
(*                                                                         *)
(* Python values: None is <<>> and an int v is <<v>> wherever a value is   *)
(* Optional; a dict is a function whose DOMAIN is the set of its keys;     *)
(* text that the code lowers, strips or searches is a sequence of          *)
(* one-character strings.  hw.memsize and psutil's "available" are counted *)
(* in MiB instead of bytes (TLC integers are 32 bit), so 1024**3 bytes is  *)
(* GiB = 1024 MiB and "// (1024**3)" is "\div GiB".                        *)
(***************************************************************************)
EXTENDS Integers, Sequences, FiniteSets, TLC

VARIABLES
    name,       \* __name__ of the module: "__main__" or the import name
    system,     \* platform.system()
    loaded,     \* has the module body run
    optimizers, \* the AppleSiliconOptimizer objects the process holds;
                \* in import mode optimizers[1] is the module's __optimizer
    environ,    \* os.environ
    environ0,   \* os.environ as it was when the process started
    last        \* the last call: its inputs, what it returned or raised

vars == <<name, system, loaded, optimizers, environ, environ0, last>>

\* ------------------------------------------------------------------ bounds
MaxOptimizers == 2   \* optimizer objects kept alive at once
MaxTotalGb    == 40  \* largest hw.memsize, in whole GiB
MaxAvailGb    == 1   \* largest psutil available memory, in whole GiB
MaxCpuCount   == 9   \* largest os.cpu_count()

\* ------------------------------------------------------- Python primitives
None == <<>>
Some(v) == <<v>>

Min(a, b) == IF a <= b THEN a ELSE b
Max(a, b) == IF a >= b THEN a ELSE b

GiB == 1024

\* dict.get(key, default)
DictGet(d, key, default) == IF key \in DOMAIN d THEN d[key] ELSE default

\* for key, value in updates.items(): d[key] = value
DictUpdate(d, updates) ==
    [k \in DOMAIN d \cup DOMAIN updates |->
        IF k \in DOMAIN updates THEN updates[k] ELSE d[k]]

\* str.lower(), one character at a time
LowerChar(c) ==
    CASE c = "A" -> "a" [] c = "E" -> "e" [] c = "I" -> "i" [] c = "L" -> "l"
      [] c = "M" -> "m" [] c = "P" -> "p" [] c = "R" -> "r" [] OTHER -> c
Lower(s) == [i \in 1..Len(s) |-> LowerChar(s[i])]

\* str.strip()
IsSpace(c) == c \in {" ", "\n", "\t"}
RECURSIVE LStrip(_)
LStrip(s) == IF s # <<>> /\ IsSpace(Head(s)) THEN LStrip(Tail(s)) ELSE s
RECURSIVE RStrip(_)
RStrip(s) ==
    IF s # <<>> /\ IsSpace(s[Len(s)]) THEN RStrip(SubSeq(s, 1, Len(s) - 1))
    ELSE s
Strip(s) == RStrip(LStrip(s))

\* needle in haystack
Contains(haystack, needle) ==
    \E i \in 1..(Len(haystack) - Len(needle) + 1) :
        SubSeq(haystack, i, i + Len(needle) - 1) = needle


\* int -> decimal text, and int(text) (None when Python raises ValueError)
DigitChars == <<"0", "1", "2", "3", "4", "5", "6", "7", "8", "9">>
RECURSIVE Digits(_)
Digits(n) ==
    IF n < 10 THEN <<DigitChars[n + 1]>>
    ELSE Digits(n \div 10) \o <<DigitChars[(n % 10) + 1]>>
DigitValue(c) == CHOOSE d \in 0..9 : DigitChars[d + 1] = c
IsDigit(c) == \E d \in 0..9 : DigitChars[d + 1] = c
RECURSIVE DigitsValue(_)
DigitsValue(s) ==
    IF s = <<>> THEN 0
    ELSE 10 * DigitsValue(SubSeq(s, 1, Len(s) - 1)) + DigitValue(s[Len(s)])
ParseInt(s) ==
    IF s # <<>> /\ \A i \in 1..Len(s) : IsDigit(s[i])
    THEN Some(DigitsValue(s)) ELSE None

\* str(n)
Str(n) == ToString(n)

\* ------------------------------------------------- what the platform answers
Systems == {"Darwin", "Linux"}

\* platform.machine()
Machines ==
    { <<"a", "r", "m", "6", "4">>, <<"A", "R", "M", "6", "4">>,
      <<"x", "8", "6", "_", "6", "4">> }

\* subprocess.run([...], capture_output=True, text=True, timeout=5):
\* it raises TimeoutExpired or FileNotFoundError, or returns with stdout
\* (check=True is not passed, so a non-zero exit raises nothing)
Raised(what) == [status |-> what, stdout |-> <<>>]
Exited(code, out) == [status |-> code, stdout |-> out]

BrandStrings ==
    { <<"A", "p", "p", "l", "e", " ", "M", "1", "\n">>,
      <<"A", "P", "P", "L", "E", "\n">>,
      <<"I", "n", "t", "e", "l", "\n">> }
BrandRuns ==
    {Raised("TimeoutExpired"), Raised("FileNotFoundError"), Exited("nonzero", <<>>)}
        \cup {Exited("zero", b) : b \in BrandStrings}

\* sysctl -n hw.memsize, counted in MiB, on machines whose memory in whole
\* GiB is one of gbs
MemsizeRunsOf(gbs) ==
    {Raised("TimeoutExpired"), Raised("FileNotFoundError"), Exited("nonzero", <<>>),
     Exited("zero", <<"?", "\n">>)}
        \cup {Exited("zero", Digits(g * GiB + r) \o <<"\n">>) :
                 g \in gbs, r \in {0, GiB - 1}}
\* every size up to MaxTotalGb, and the two extreme sizes alone
MemsizeRuns == MemsizeRunsOf(0..MaxTotalGb)
MemsizeRunsExtreme == MemsizeRunsOf({0, MaxTotalGb})

\* import psutil; psutil.virtual_memory().available, counted in MiB
PsutilLibs ==
    {[installed |-> FALSE, available |-> 0]}
        \cup {[installed |-> TRUE, available |-> a * GiB + r] :
                 a \in 0..MaxAvailGb, r \in {0, GiB - 1}}

\* import torch, as _check_mps_availability and _check_cuda_availability see it
TorchLibs ==
    {[installed |-> FALSE, mps_is_available |-> FALSE, mps_is_built |-> FALSE,
      cuda_is_available |-> FALSE]}
        \cup [installed : {TRUE}, mps_is_available : BOOLEAN,
              mps_is_built : BOOLEAN, cuda_is_available : BOOLEAN]

\* os.cpu_count()
CpuCounts == {None, Some(1), Some(MaxCpuCount)}

\* os.environ when the process starts
InitialEnvirons ==
    { [k \in {"PATH"} |-> "/usr/bin"],
      [k \in {"PATH", "OMP_NUM_THREADS", "TOKENIZERS_PARALLELISM"} |->
          CASE k = "PATH" -> "/usr/bin"
            [] k = "OMP_NUM_THREADS" -> "16"
            [] OTHER -> "true"] }

\* ------------------------------------------------- AppleSiliconOptimizer
_detect_apple_silicon(sys, machine, brand) ==
    IF sys # "Darwin" THEN FALSE
    ELSE IF Lower(machine) = <<"a", "r", "m", "6", "4">> THEN TRUE
    ELSE IF brand.status \in {"TimeoutExpired", "FileNotFoundError"} THEN FALSE
    ELSE Contains(Lower(Strip(brand.stdout)), <<"a", "p", "p", "l", "e">>)

\* _check_mps_availability without its first two lines
check_mps_without_guard(is_apple_silicon, torch) ==
    IF ~torch.installed THEN [ret |-> FALSE, imports |-> {"mps"}]
    ELSE [ret |-> torch.mps_is_available /\ torch.mps_is_built,
          imports |-> {"mps"}]

\* ret: the value returned; imports: the "import torch" statements executed
_check_mps_availability(is_apple_silicon, torch) ==
    IF ~is_apple_silicon THEN [ret |-> FALSE, imports |-> {}]
    ELSE IF ~torch.installed THEN [ret |-> FALSE, imports |-> {"mps"}]
    ELSE [ret |-> torch.mps_is_available /\ torch.mps_is_built,
          imports |-> {"mps"}]

_check_cuda_availability(torch) ==
    IF ~torch.installed THEN [ret |-> FALSE, imports |-> {"cuda"}]
    ELSE [ret |-> torch.cuda_is_available, imports |-> {"cuda"}]

\* self after __init__, with the imports __init__ made
__init__(sys, machine, brand, torch) ==
    LET is_apple_silicon == _detect_apple_silicon(sys, machine, brand)
        mps == _check_mps_availability(is_apple_silicon, torch)
    IN  [self |-> [is_apple_silicon |-> is_apple_silicon,
                   mps_available |-> mps.ret],
         imports |-> mps.imports]

\* get_optimal_device with "and prefer_mps" left out of line 64
get_optimal_device_ignoring_preference(self, prefer_mps, torch) ==
    IF self.is_apple_silicon /\ self.mps_available
    THEN [ret |-> "mps", imports |-> {}]
    ELSE LET cuda == _check_cuda_availability(torch)
         IN  IF cuda.ret THEN [ret |-> "cuda", imports |-> cuda.imports]
             ELSE [ret |-> "cpu", imports |-> cuda.imports]

get_optimal_device(self, prefer_mps, torch) ==
    IF self.is_apple_silicon /\ prefer_mps /\ self.mps_available
    THEN [ret |-> "mps", imports |-> {}]
    ELSE LET cuda == _check_cuda_availability(torch)
         IN  IF cuda.ret THEN [ret |-> "cuda", imports |-> cuda.imports]
             ELSE [ret |-> "cpu", imports |-> cuda.imports]

num_threads(cpu_count) ==
    Str(Min(8, IF cpu_count = None \/ cpu_count = Some(0) THEN 4 ELSE cpu_count[1]))

optimizations(cpu_count) ==
    [k \in {"PYTORCH_ENABLE_MPS_FALLBACK", "PYTORCH_MPS_HIGH_WATERMARK_RATIO",
            "MALLOC_ARENA_MAX", "OMP_NUM_THREADS", "MKL_NUM_THREADS",
            "OPENBLAS_NUM_THREADS", "VECLIB_MAXIMUM_THREADS",
            "TOKENIZERS_PARALLELISM"} |->
        CASE k = "PYTORCH_ENABLE_MPS_FALLBACK" -> "1"
          [] k = "PYTORCH_MPS_HIGH_WATERMARK_RATIO" -> "0.0"
          [] k = "MALLOC_ARENA_MAX" -> "4"
          [] k = "TOKENIZERS_PARALLELISM" -> "false"
          [] OTHER -> num_threads(cpu_count)]

\* apply_apple_silicon_optimizations without the early return of line 81
apply_on_any_machine(self, env, cpu_count) ==
    DictUpdate(env, optimizations(cpu_count))

\* os.environ after the call
apply_apple_silicon_optimizations(self, env, cpu_count) ==
    IF ~self.is_apple_silicon THEN env
    ELSE DictUpdate(env, optimizations(cpu_count))

\* the dict get_memory_info returns
get_memory_info(sys, memsize, psutil) ==
    LET total_bytes == ParseInt(Strip(memsize.stdout))
        \* does the try block raise before line 122 completes
        total_raises ==
            /\ sys = "Darwin"
            /\ \/ memsize.status \in {"TimeoutExpired", "FileNotFoundError"}
               \/ total_bytes = None
        except == [k \in {"total_gb", "available_gb"} |-> None]
    IN  IF total_raises \/ ~psutil.installed THEN except
        ELSE IF sys = "Darwin"
        THEN [k \in {"total_gb", "available_gb"} |->
                 IF k = "total_gb" THEN Some(total_bytes[1] \div GiB)
                 ELSE Some(psutil.available \div GiB)]
        ELSE [k \in {"available_gb"} |-> Some(psutil.available \div GiB)]

\* which step of the probe get_memory_info attempts fails, if any
memory_probe(sys, memsize, psutil) ==
    IF sys = "Darwin" /\ memsize.status = "TimeoutExpired" THEN "timeout"
    ELSE IF sys = "Darwin" /\ memsize.status = "FileNotFoundError" THEN "missing binary"
    ELSE IF sys = "Darwin" /\ memsize.status = "nonzero" THEN "non-zero exit"
    ELSE IF sys = "Darwin" /\ ParseInt(Strip(memsize.stdout)) = None THEN "unparsable"
    ELSE IF ~psutil.installed THEN "missing library"
    ELSE "ok"

\* line 141 with <= for <
offload_to_cpu_inclusive(total_gb) == total_gb <= 32
\* line 149 without min(4, ...)
batch_size_unclamped(total_gb) == Max(1, total_gb \div 8)

offload_to_cpu(total_gb) == total_gb < 32
offload_dit_to_cpu(total_gb) == total_gb < 16
batch_size(total_gb) == Min(4, Max(1, total_gb \div 8))
precision(self) == IF self.mps_available THEN "float16" ELSE "float32"

\* exc: the exception that leaves the call ("none": it returns ret)
get_recommended_settings(self, sys, memsize, psutil, torch) ==
    LET memory_info == get_memory_info(sys, memsize, psutil)
        total_gb == DictGet(memory_info, "total_gb", Some(8))
        device == get_optimal_device(self, TRUE, torch)
    IN  IF total_gb = None   \* None < 32
        THEN [exc |-> "TypeError", memory_info |-> memory_info,
              total_gb |-> total_gb, ret |-> <<>>, imports |-> {}]
        ELSE [exc |-> "none", memory_info |-> memory_info,
              total_gb |-> total_gb,
              ret |-> [device |-> device.ret,
                       offload_to_cpu |-> offload_to_cpu(total_gb[1]),
                       offload_dit_to_cpu |-> offload_dit_to_cpu(total_gb[1]),
                       use_flash_attention |-> FALSE,
                       backend |-> "pt",
                       batch_size |-> batch_size(total_gb[1]),
                       precision |-> precision(self)],
              imports |-> device.imports]

\* device: what self.get_optimal_device() returned (line 161); memory_info:
\* what self.get_memory_info() returned (line 163); recommendations: how
\* self.get_recommended_settings() ended (line 169)
print_system_info(self, device, memory_info, recommendations) ==
    IF "total_gb" \notin DOMAIN memory_info
    THEN [exc |-> "KeyError", imports |-> device.imports]
    ELSE IF "available_gb" \notin DOMAIN memory_info
    THEN [exc |-> "KeyError", imports |-> device.imports]
    ELSE [exc |-> recommendations.exc,
          imports |-> device.imports \cup recommendations.imports]

\* ------------------------------------------- how a call can end, by inputs
Profiles == [is_apple_silicon : BOOLEAN, mps_available : BOOLEAN]

cuda_seen(torch) ==
    [installed |-> torch.installed, cuda_is_available |-> torch.cuda_is_available]

\* how get_memory_info() can end on each system, over the sysctl runs in runs
MemoryInfoCallsOf(runs) ==
    {[sys |-> sys, probe |-> memory_probe(sys, m, p),
      ret |-> get_memory_info(sys, m, p)] :
        sys \in Systems, m \in runs, p \in PsutilLibs}
MemoryInfoCalls == MemoryInfoCallsOf(MemsizeRuns)
MemoryInfoCallsExtreme == MemoryInfoCallsOf(MemsizeRunsExtreme)

\* how self.get_recommended_settings() can end
RecommendedSettingsCallsOf(runs) ==
    {[sys |-> sys, self |-> self, probe |-> memory_probe(sys, m, p),
      cuda |-> cuda_seen(t),
      call |-> get_recommended_settings(self, sys, m, p, t)] :
        sys \in Systems, self \in Profiles,
        m \in runs, p \in PsutilLibs, t \in TorchLibs}
RecommendedSettingsCalls == RecommendedSettingsCallsOf(MemsizeRuns)
RecommendedSettingsCallsExtreme == RecommendedSettingsCallsOf(MemsizeRunsExtreme)

\* how self.print_system_info() can end: its three calls probe afresh
PrintSystemInfoCalls ==
    {r \in UNION {UNION {
        {[sys |-> sys, self |-> self,
          call |-> print_system_info(self, get_optimal_device(self, TRUE, t),
                                     mi.ret, rs.call)] :
            t \in TorchLibs,
            mi \in {x \in MemoryInfoCallsExtreme : x.sys = sys},
            rs \in {x \in RecommendedSettingsCallsExtreme :
                        x.sys = sys /\ x.self = self}} :
        self \in Profiles} : sys \in Systems} : TRUE}

\* how AppleSiliconOptimizer() can end on each system
InitCalls ==
    {[sys |-> sys, call |-> __init__(sys, machine, brand, torch)] :
        sys \in Systems, machine \in Machines, brand \in BrandRuns,
        torch \in TorchLibs}

\* optimize_for_apple_silicon(); init: how AppleSiliconOptimizer() ended
\* (line 183); printed: how optimizer.print_system_info() ended (line 187),
\* when it is called
optimize_for_apple_silicon(init, env, cpu_count, printed) ==
    LET env2 == apply_apple_silicon_optimizations(init.self, env, cpu_count)
    IN  IF init.self.is_apple_silicon
        THEN [self |-> init.self, environ |-> env2, exc |-> printed.exc,
              imports |-> init.imports \cup printed.imports]
        ELSE [self |-> init.self, environ |-> env2, exc |-> "none",
              imports |-> init.imports]

\* --------------------------------------------------------------- the calls
\* The record kept of a call; a field a call does not produce keeps its value
\* here.  inst: the index in optimizers of the object called (0: an object
\* the caller does not hold yet); cuda: what torch would answer during the
\* call, whether or not the call asks.
Call(op, self) ==
    [op |-> op, via |-> "method", inst |-> 0, self |-> self, prefer_mps |-> TRUE,
     cuda |-> [installed |-> FALSE, cuda_is_available |-> FALSE],
     probe |-> "none", memory_info |-> <<>>, total_gb |-> None,
     settings |-> <<>>, device |-> "", exc |-> "none", imports |-> {}]

NoSelf == [is_apple_silicon |-> FALSE, mps_available |-> FALSE]

Init ==
    /\ name \in {"__main__", "acestep.apple_silicon_optimizer"}
    /\ system \in Systems
    /\ loaded = FALSE
    /\ optimizers = <<>>
    /\ environ \in InitialEnvirons
    /\ environ0 = environ
    /\ last = Call("start", NoSelf)

\* python apple_silicon_optimizer.py: lines 193-195, then the process ends
RunAsMain ==
    /\ ~loaded /\ name = "__main__"
    /\ \E init \in InitCalls, cpu_count \in CpuCounts, printed \in PrintSystemInfoCalls :
          LET r == optimize_for_apple_silicon(init.call, environ, cpu_count, printed.call)
          IN  /\ init.sys = system
              /\ printed.sys = system /\ printed.self = init.call.self
              /\ optimizers' = IF r.exc = "none" THEN <<r.self>> ELSE <<>>
              /\ environ' = r.environ
              /\ last' = [Call("__main__", r.self) EXCEPT
                             !.exc = r.exc, !.imports = r.imports]
    /\ loaded' = TRUE
    /\ UNCHANGED <<name, system, environ0>>

\* the import branch applying the optimizations, as the __main__ branch does
ImportModuleAutoApply ==
    /\ ~loaded /\ name # "__main__"
    /\ \E init \in InitCalls, cpu_count \in CpuCounts :
          /\ init.sys = system
          /\ optimizers' = <<init.call.self>>
          /\ environ' = apply_on_any_machine(init.call.self, environ, cpu_count)
          /\ last' = [Call("import", init.call.self) EXCEPT
                         !.inst = 1, !.imports = init.call.imports]
    /\ loaded' = TRUE
    /\ UNCHANGED <<name, system, environ0>>

\* import acestep.apple_silicon_optimizer: lines 196-208
ImportModule ==
    /\ ~loaded /\ name # "__main__"
    /\ \E init \in InitCalls :
          /\ init.sys = system
          /\ optimizers' = <<init.call.self>>
          /\ last' = [Call("import", init.call.self) EXCEPT
                         !.inst = 1, !.imports = init.call.imports]
    /\ loaded' = TRUE
    /\ UNCHANGED <<name, system, environ, environ0>>

Imported == loaded /\ name # "__main__"

\* AppleSiliconOptimizer() by a caller, who keeps the object
NewOptimizer ==
    /\ Imported /\ Len(optimizers) < MaxOptimizers
    /\ \E init \in InitCalls :
          /\ init.sys = system
          /\ optimizers' = Append(optimizers, init.call.self)
          /\ last' = [Call("__init__", init.call.self) EXCEPT
                         !.inst = Len(optimizers) + 1,
                         !.imports = init.call.imports]
    /\ UNCHANGED <<name, system, loaded, environ, environ0>>

\* get_optimal_device probing MPS again and storing the answer in self
GetOptimalDeviceReprobing(i, via, prefer_mps) ==
    /\ Imported
    /\ \E torch \in TorchLibs :
          LET mps == _check_mps_availability(optimizers[i].is_apple_silicon, torch)
              self == [optimizers[i] EXCEPT !.mps_available = mps.ret]
              r == get_optimal_device(self, prefer_mps, torch)
          IN  /\ optimizers' = [optimizers EXCEPT ![i] = self]
              /\ last' = [Call("get_optimal_device", self) EXCEPT
                             !.via = via, !.inst = i, !.prefer_mps = prefer_mps,
                             !.cuda = cuda_seen(torch), !.device = r.ret,
                             !.imports = r.imports \cup mps.imports]
    /\ UNCHANGED <<name, system, loaded, environ, environ0>>

GetOptimalDevice(i, via, prefer_mps) ==
    /\ Imported
    /\ \E torch \in TorchLibs :
          LET r == get_optimal_device(optimizers[i], prefer_mps, torch)
          IN  last' = [Call("get_optimal_device", optimizers[i]) EXCEPT
                          !.via = via, !.inst = i, !.prefer_mps = prefer_mps,
                          !.cuda = cuda_seen(torch), !.device = r.ret,
                          !.imports = r.imports]
    /\ UNCHANGED <<name, system, loaded, optimizers, environ, environ0>>

GetMemoryInfo(i, calls) ==
    /\ Imported
    /\ \E r \in calls :
          /\ r.sys = system
          /\ last' = [Call("get_memory_info", optimizers[i]) EXCEPT
                      !.inst = i, !.probe = r.probe, !.memory_info = r.ret]
    /\ UNCHANGED <<name, system, loaded, optimizers, environ, environ0>>

GetRecommendedSettings(i, via, calls) ==
    /\ Imported
    /\ \E r \in calls :
          /\ r.sys = system /\ r.self = optimizers[i]
          /\ last' = [Call("get_recommended_settings", optimizers[i]) EXCEPT
                      !.via = via, !.inst = i, !.probe = r.probe, !.cuda = r.cuda,
                      !.total_gb = r.call.total_gb, !.settings = r.call.ret,
                      !.device = IF r.call.exc = "none" THEN r.call.ret.device ELSE "",
                      !.exc = r.call.exc, !.imports = r.call.imports]
    /\ UNCHANGED <<name, system, loaded, optimizers, environ, environ0>>

ApplyAppleSiliconOptimizations(i) ==
    /\ Imported
    /\ \E cpu_count \in CpuCounts :
          environ' = apply_apple_silicon_optimizations(optimizers[i], environ, cpu_count)
    /\ last' = [Call("apply_apple_silicon_optimizations", optimizers[i]) EXCEPT
                   !.inst = i]
    /\ UNCHANGED <<name, system, loaded, optimizers, environ0>>

PrintSystemInfo(i) ==
    /\ Imported
    /\ \E r \in PrintSystemInfoCalls :
          /\ r.sys = system /\ r.self = optimizers[i]
          /\ last' = [Call("print_system_info", optimizers[i]) EXCEPT
                         !.inst = i, !.exc = r.call.exc,
                         !.imports = r.call.imports]
    /\ UNCHANGED <<name, system, loaded, optimizers, environ, environ0>>

\* optimize_for_apple_silicon() by a caller, who keeps the object returned
\* while there is room for it
OptimizeForAppleSilicon ==
    /\ Imported
    /\ \E init \in InitCalls, cpu_count \in CpuCounts, printed \in PrintSystemInfoCalls :
          LET r == optimize_for_apple_silicon(init.call, environ, cpu_count, printed.call)
          IN  /\ init.sys = system
              /\ printed.sys = system /\ printed.self = init.call.self
              /\ optimizers' =
                     IF r.exc = "none" /\ Len(optimizers) < MaxOptimizers
                     THEN Append(optimizers, r.self) ELSE optimizers
              /\ environ' = r.environ
              /\ last' = [Call("optimize_for_apple_silicon", r.self) EXCEPT
                             !.exc = r.exc, !.imports = r.imports]
    /\ UNCHANGED <<name, system, loaded, environ0>>

\* the three functions the import branch defines, on __optimizer
ModuleGetOptimalDevice == GetOptimalDevice(1, "module", TRUE)

ModuleIsAppleSilicon ==
    /\ Imported
    /\ last' = [Call("is_apple_silicon", optimizers[1]) EXCEPT
                   !.via = "module", !.inst = 1]
    /\ UNCHANGED <<name, system, loaded, optimizers, environ, environ0>>

ModuleGetRecommendedSettings ==
    GetRecommendedSettings(1, "module", RecommendedSettingsCallsExtreme)

Next ==
    \/ RunAsMain
    \/ ImportModule
    \/ NewOptimizer
    \/ OptimizeForAppleSilicon
    \/ ModuleGetOptimalDevice
    \/ ModuleIsAppleSilicon
    \/ ModuleGetRecommendedSettings
    \/ \E i \in 1..Len(optimizers) :
          \/ \E prefer_mps \in BOOLEAN : GetOptimalDevice(i, "method", prefer_mps)
          \/ GetMemoryInfo(i, MemoryInfoCallsExtreme)
          \/ GetRecommendedSettings(i, "method", RecommendedSettingsCallsExtreme)
          \/ ApplyAppleSiliconOptimizations(i)
          \/ PrintSystemInfo(i)

Spec == Init /\ [][Next]_vars

\* The module imported, then the two memory-reading calls on __optimizer,
\* on every memory size up to MaxTotalGb
MemoryNext ==
    \/ ImportModule
    \/ GetMemoryInfo(1, MemoryInfoCalls)
    \/ GetRecommendedSettings(1, "method", RecommendedSettingsCalls)

MemoryInit == Init /\ name # "__main__"

MemorySpec == MemoryInit /\ [][MemoryNext]_vars

\* ------------------------------------------------------------- the claims
Accessors ==
    {"get_optimal_device", "get_memory_info", "get_recommended_settings",
     "apply_apple_silicon_optimizations", "is_apple_silicon"}

SecondaryAvailable == last.cuda.installed /\ last.cuda.cuda_is_available

\* C1: whatever the probes answer, each public accessor returns a value and
\* raises nothing to its caller.
C1_AccessorsNeverRaise ==
    last.op \in Accessors => last.exc = "none"

\* C2: when the memory probe fails, get_recommended_settings computes from a
\* total of 8 GB: it returns offload_to_cpu and offload_dit_to_cpu true and
\* batch_size 1.
C2_FailedProbeUsesEightGb ==
    (last.op = "get_recommended_settings" /\ last.probe # "ok") =>
        /\ last.exc = "none"
        /\ last.settings.offload_to_cpu
        /\ last.settings.offload_dit_to_cpu
        /\ last.settings.batch_size = 1

\* C3: get_memory_info always returns a record with both the total_gb and the
\* available_gb field, both of them None whenever a step of the probe
\* failed, and raises nothing.
C3_MemoryInfoHasBothFields ==
    last.op = "get_memory_info" =>
        /\ last.exc = "none"
        /\ DOMAIN last.memory_info = {"total_gb", "available_gb"}
        /\ last.probe # "ok" =>
              /\ last.memory_info["total_gb"] = None
              /\ last.memory_info["available_gb"] = None

\* C4: get_optimal_device(prefer_mps) returns "mps" exactly when Apple
\* Silicon was detected, prefer_mps is true and MPS is available; otherwise
\* "cuda" exactly when CUDA is available; otherwise "cpu".  It never returns
\* "mps" off Apple Silicon or with prefer_mps false.
C4_DeviceDecisionOrder ==
    last.op = "get_optimal_device" =>
        /\ last.device =
              IF last.self.is_apple_silicon /\ last.prefer_mps
                    /\ last.self.mps_available
              THEN "mps"
              ELSE IF SecondaryAvailable THEN "cuda" ELSE "cpu"
        /\ last.device = "mps" => last.self.is_apple_silicon /\ last.prefer_mps

C4_Witness ==
    /\ last.op = "get_optimal_device"
    /\ last.self.is_apple_silicon /\ last.self.mps_available
    /\ ~last.prefer_mps
    /\ last.device = "cuda"

ConstructsOrAsksDevice ==
    last.op \in {"import", "get_optimal_device", "get_recommended_settings"}

\* C5 as stated: off Darwin, construction and every later get_optimal_device
\* or get_recommended_settings call answers the MPS and the CUDA check false
\* and never executes "import torch".
C5_NoTorchImportOffDarwin ==
    (system # "Darwin" /\ ConstructsOrAsksDevice) =>
        /\ last.imports = {}
        /\ ~last.self.mps_available
        /\ last.device \notin {"mps", "cuda"}

\* C5 as amended: off Darwin, construction answers the MPS check false without
\* executing "import torch", and no later call returns "mps"; the CUDA
\* check of get_optimal_device, which get_recommended_settings reaches
\* whenever it raises nothing, does execute "import torch" and answers what
\* torch reports.
C5_OnlyCudaCheckImportsOffDarwin ==
    (system # "Darwin" /\ ConstructsOrAsksDevice) =>
        /\ ~last.self.is_apple_silicon /\ ~last.self.mps_available
        /\ "mps" \notin last.imports
        /\ last.device # "mps"
        /\ last.op = "import" => last.imports = {}
        /\ (last.op # "import" /\ last.exc = "none") =>
              /\ last.imports = {"cuda"}
              /\ last.device = IF SecondaryAvailable THEN "cuda" ELSE "cpu"

C5_Witness ==
    /\ system # "Darwin"
    /\ last.op = "get_optimal_device"
    /\ last.imports = {"cuda"}
    /\ last.device = "cuda"

Applies ==
    {"apply_apple_silicon_optimizations", "optimize_for_apple_silicon", "__main__"}

\* C6: when Apple Silicon was not detected, apply_apple_silicon_optimizations
\* and optimize_for_apple_silicon leave os.environ exactly as it was, at
\* every call.
C6_ApplyLeavesEnvironOffTarget ==
    [][(last'.op \in Applies /\ ~last'.self.is_apple_silicon) =>
            environ' = environ]_vars

C6_Witness ==
    /\ system = "Darwin"
    /\ last.op = "apply_apple_silicon_optimizations"
    /\ ~last.self.is_apple_silicon
    /\ environ = environ0
    /\ "OMP_NUM_THREADS" \in DOMAIN environ /\ environ["OMP_NUM_THREADS"] = "16"

Returned == last.op = "get_recommended_settings" /\ last.exc = "none"

\* C7: for every total_gb, get_recommended_settings returns offload_to_cpu
\* true exactly when total_gb < 32 and offload_dit_to_cpu true exactly when
\* total_gb < 16, and offload_dit_to_cpu implies offload_to_cpu.
C7_OffloadThresholds ==
    Returned =>
        /\ last.settings.offload_to_cpu = (last.total_gb[1] < 32)
        /\ last.settings.offload_dit_to_cpu = (last.total_gb[1] < 16)
        /\ last.settings.offload_dit_to_cpu => last.settings.offload_to_cpu

C7_Witness ==
    /\ Returned /\ last.probe = "ok"
    /\ last.total_gb = Some(32)
    /\ ~last.settings.offload_to_cpu /\ ~last.settings.offload_dit_to_cpu

\* C8: for every total_gb >= 0, get_recommended_settings returns batch_size =
\* min(4, max(1, floor(total_gb / 8))): an integer in 1..4, no smaller than
\* for any smaller total_gb, 1 for 4 GB, 2 for 16 GB and 4 for 40 GB.
C8_BatchSizeClamp ==
    Returned =>
        LET t == last.total_gb[1]
            b == last.settings.batch_size
            q == t \div 8
        IN  /\ b = (IF q < 1 THEN 1 ELSE IF q > 4 THEN 4 ELSE q)
            /\ b \in 1..4
            /\ \A u \in 0..t : batch_size(u) <= b
            /\ t = 4 => b = 1
            /\ t = 16 => b = 2
            /\ t = 40 => b = 4

C8_Witness ==
    /\ Returned /\ last.probe = "ok"
    /\ last.total_gb = Some(40)
    /\ last.settings.batch_size = 4

C10_ProfileNeverChanges ==
    [][/\ \A i \in DOMAIN optimizers :
              i \in DOMAIN optimizers' /\ optimizers'[i] = optimizers[i]
       /\ \A i \in DOMAIN optimizers' :
              optimizers'[i].mps_available => optimizers'[i].is_apple_silicon
       /\ (last'.op = "get_recommended_settings" /\ last'.exc = "none") =>
              /\ last'.self = optimizers'[last'.inst]
              /\ last'.settings.precision =
                    IF optimizers'[last'.inst].mps_available
                    THEN "float16" ELSE "float32"]_vars

\* torch can no longer be imported, and the optimizer still answers from the
\* MPS probe made when it was constructed
C10_Witness ==
    /\ Returned
    /\ Len(optimizers) = MaxOptimizers
    /\ optimizers[last.inst].mps_available
    /\ ~last.cuda.installed
    /\ last.settings.precision = "float16"
    /\ last.settings.device = "mps"

=============================================================================
